---------------------------- MODULE Spec2Model ----------------------------
(***************************************************************************)
(* Game of Life scripts of carolinafaccin/gol.                             *)
(*                                                                         *)
(* One run of the model is one run of one script (prog): its Game is       *)
(* constructed from the arguments chosen in Init and then updated.         *)
(*   "gol"        src/src/gol.py, stepped together with the update kernels *)
(*                of src/src/growing-heart.py (double loop) and            *)
(*                src/src/growingheart.py (convolution) from the same grid *)
(*   "saw_santos" src/examples/saw_santos2023.py, one loop iteration of    *)
(*                Game.update per step                                     *)
(*   "gol_v0"     src/src/past_versions/gol_v0.py                          *)
(*   "gol_main"   the __main__ block of src/src/gol.py: a Game with the    *)
(*                rules of the script, then create_gif or                  *)
(*                create_visualization, one statement of the loop body per *)
(*                step                                                     *)
(*   "heart_v1"   src/src/past_versions/heart_v1.py (heart_v0.py has the   *)
(*                same constructor)                                        *)
(*   "heart_v4"   src/src/heart_v4.py (heart_v2.py has the same            *)
(*                constructor)                                             *)
(* In a "gol" run the double-loop kernels of heart_v1.py / heart_v2.py /   *)
(* gol_v0.py (classicGrid) and of heart_v4.py (v4Grid) are stepped from    *)
(* the same grid as well.                                                  *)
(* A NumPy array is a function [0..rows-1 -> [0..columns-1 -> Int]], a     *)
(* Python list of cells a function [0..n-1 -> BOOLEAN].                    *)
(***************************************************************************)
EXTENDS Integers, Sequences, FiniteSets, TLC

VARIABLES
    prog,            \* the script that runs
    pc,              \* "new", "ready", "updating", or the exception raised
    rows,            \* gol.py: Game.rows
    columns,         \* gol.py: Game.columns
    arg_survival,    \* gol.py: the survival_rules argument (Omitted: default)
    arg_birth,       \* gol.py: the birth_rules argument (Omitted: default)
    survival_rules,  \* gol.py: Game.survival_rules
    birth_rules,     \* gol.py: Game.birth_rules
    initial_state,   \* gol.py: Game.initial_state
    grid,            \* gol.py, gol_v0.py, heart_v1.py, heart_v4.py: Game.grid
    loopGrid,        \* growing-heart.py: Game.grid
    convGrid,        \* growingheart.py: Game.grid
    linhas,          \* saw_santos2023.py, gol_v0.py, heart_v*.py: Game.linhas
    colunas,         \* saw_santos2023.py, gol_v0.py, heart_v*.py: Game.colunas
    vivos,           \* saw_santos2023.py: vivos, gol_v0.py: vivos_percent
    celulas,         \* saw_santos2023.py: the list update() enumerates
    new_grid,        \* saw_santos2023.py: the list new_grid of update()
    self_celulas,    \* saw_santos2023.py: the list self.celulas is bound to
    pos,             \* saw_santos2023.py: loop index of update()
    gen,             \* number of completed update() calls
    start,           \* gol.py: the grid Game.__init__ left (history)
    classicGrid,     \* heart_v1.py, heart_v2.py, gol_v0.py kernel: Game.grid
    v4Grid,          \* heart_v4.py: Game.grid
    v0Grid,          \* heart_v0.py: Game.grid
    main_choice,     \* gol.py __main__: choice
    total_steps,     \* gol.py __main__: total_steps
    step_num,        \* gol.py create_gif / create_visualization: step_num
    stmt,            \* the statement of the loop body that runs next
    frames,          \* the frames written (gif) or shown (live), in order
    arrays,          \* gol.py __main__: the array objects allocated, by id
    grid_ref,        \* gol.py __main__: the array object Game.grid is bound to
    typed,           \* gol.py __main__: the two lines input() returns
    matrix_size,     \* gol.py __main__: matrix_size
    existing,        \* gol.py __main__: the gif files of output_dir
    version          \* gol.py __main__: version

vars == <<prog, pc, rows, columns, arg_survival, arg_birth, survival_rules,
          birth_rules, initial_state, grid, loopGrid, convGrid, linhas,
          colunas, vivos, celulas, new_grid, self_celulas, pos, gen, start,
          classicGrid, v4Grid, v0Grid, main_choice, total_steps, step_num, stmt, frames,
          arrays, grid_ref, typed, matrix_size, existing, version>>

\* the engines stepped next to gol.py, and the state of the driver loop
kernelVars == <<classicGrid, v4Grid, v0Grid>>
driverVars == <<main_choice, total_steps, step_num, stmt, frames>>
heapVars == <<arrays, grid_ref>>
ioVars == <<typed, matrix_size, existing, version>>

-----------------------------------------------------------------------------
(* Bounds of the model *)

MaxDim == 8          \* largest rows / columns argument of gol.py
MaxCells == 9        \* largest rows * columns of an arbitrary (random) grid
MaxSteps == 2        \* update() calls per run
MaxSample == 5       \* largest rows / columns of the sample grids
MaxVersion == 11     \* most versioned gif files in a row in output_dir

None == <<>>
\* a keyword argument: left out, or given with a value
Omitted == [given |-> FALSE, value |-> <<>>]
Given(v) == [given |-> TRUE, value |-> v]

DimArgs == (0 - 1)..MaxDim
SurvivalArgs == {Omitted, Given(<<2, 3>>), Given(<<9>>), Given(<<0, 8>>)}
BirthArgs == {Omitted, Given(<<2, 9>>), Given(<<0, 6>>)}
InitialStateArgs == {"heart", "random", "other"}
ChoiceArgs == {"gif", "live", "other"}
StepsArgs == (0 - 1)..MaxSteps
VivosArgs == {0 - 50, 0, 50, 100, 150}
\* values of random() in [0, 1), in hundredths
RandomVals == {0, 99}
\* lines typed at the two prompts, as their characters
InputArgs ==
    { <<"7">>, <<"1", "2">>, <<"-", "3">>, <<"+", "5">>, <<" ", "4", " ">>,
      <<"0", "6">>, <<>>, <<"a">>, <<"3", ".", "5">>, <<"-">>,
      <<"4", " ", "0">> }

-----------------------------------------------------------------------------
(* NumPy helpers *)

Rng(n) == 0..(n - 1)

np_zeros(r, c) == [i \in Rng(r) |-> [j \in Rng(c) |-> 0]]

\* all arrays of shape (r, c) with cells drawn from vals
Arrays(r, c, vals) == [Rng(r) -> [Rng(c) -> vals]]

\* membership tested against the first entry only
isinM(x, list) == list # <<>> /\ list[1] = x
\* np.isin(x, list)
isin(x, list) == \E k \in DOMAIN list : list[k] = x

\* a dimension of 0 refused as well
NegativeDimensionsM(r, c) == r <= 0 \/ c <= 0
\* np.zeros and np.random.randint refuse a negative dimension
NegativeDimensions(r, c) == r < 0 \/ c < 0

-----------------------------------------------------------------------------
(* src/src/gol.py: Game.__init__ *)

\* the classic survival rule as the default
DefaultSurvivalM == <<2, 3>>
\* the defaults of the signature of Game.__init__
DefaultSurvival == <<2, 3, 4, 5>>
DefaultBirth == <<3>>

heart_pattern ==
    << <<0, 1, 1, 0, 1, 1, 0>>,
       <<1, 1, 1, 1, 1, 1, 1>>,
       <<1, 1, 1, 1, 1, 1, 1>>,
       <<0, 1, 1, 1, 1, 1, 0>>,
       <<0, 0, 1, 1, 1, 0, 0>>,
       <<0, 0, 0, 1, 0, 0, 0>> >>

\* the guard of heart_v0.py / heart_v1.py, in place of place_pattern's
pattern_fitsM(start_row, start_col, pattern_height, pattern_width, shape0, shape1) ==
    shape0 > pattern_height /\ shape1 > pattern_width

pattern_fits(start_row, start_col, pattern_height, pattern_width, shape0, shape1) ==
    /\ start_row >= 0
    /\ start_col >= 0
    /\ (start_row + pattern_height) <= shape0
    /\ (start_col + pattern_width) <= shape1

\* the part of the pattern that lies inside the grid is written
place_patternM(g, shape0, shape1, pattern, center_row, center_col) ==
    LET pattern_height == Len(pattern)
        pattern_width == Len(pattern[1])
        start_row == center_row - (pattern_height \div 2)
        start_col == center_col - (pattern_width \div 2)
    IN  [i \in Rng(shape0) |-> [j \in Rng(shape1) |->
            IF /\ i \in start_row..(start_row + pattern_height - 1)
               /\ j \in start_col..(start_col + pattern_width - 1)
            THEN pattern[i - start_row + 1][j - start_col + 1]
            ELSE g[i][j]]]
\* place_pattern(grid, pattern, center_row, center_col); shape0, shape1 are
\* grid.shape
place_pattern(g, shape0, shape1, pattern, center_row, center_col) ==
    LET pattern_height == Len(pattern)
        pattern_width == Len(pattern[1])
        start_row == center_row - (pattern_height \div 2)
        start_col == center_col - (pattern_width \div 2)
    IN  IF pattern_fits(start_row, start_col, pattern_height, pattern_width,
                        shape0, shape1)
        THEN [i \in Rng(shape0) |-> [j \in Rng(shape1) |->
                 IF /\ i \in start_row..(start_row + pattern_height - 1)
                    /\ j \in start_col..(start_col + pattern_width - 1)
                 THEN pattern[i - start_row + 1][j - start_col + 1]
                 ELSE g[i][j]]]
        ELSE g

\* a keyword argument left out takes the default of the signature
StoreRules(arg, default) == IF arg.given THEN arg.value ELSE default

\* a rule list is validated against 0..8 before it is stored
init_errorM(r, c, survival, birth) ==
    IF \E k \in DOMAIN survival : survival[k] \notin 0..8 THEN "InvalidRule"
    ELSE IF \E k \in DOMAIN birth : birth[k] \notin 0..8 THEN "InvalidRule"
    ELSE IF NegativeDimensions(r, c) THEN "ValueError"
    ELSE "none"

\* the exception Game.__init__ raises: only the array allocation can fail
init_error(r, c, survival, birth) ==
    IF NegativeDimensions(r, c) THEN "ValueError" ELSE "none"

\* the shapes of more than MaxCells cells that are given a random grid
SampleDims == 4..MaxSample

\* the horizontal and the vertical blinker on a 5 x 5 grid
BlinkerH ==
    [i \in Rng(5) |-> [j \in Rng(5) |-> IF i = 2 /\ j \in 1..3 THEN 1 ELSE 0]]
BlinkerV ==
    [i \in Rng(5) |-> [j \in Rng(5) |-> IF j = 2 /\ i \in 1..3 THEN 1 ELSE 0]]

\* the grid whose only alive cells are the 2 x 2 block with its top-left
\* corner at (i0, j0), on the torus
Block(r, c, i0, j0) ==
    [i \in Rng(r) |-> [j \in Rng(c) |->
        IF i \in {i0, (i0 + 1) % r} /\ j \in {j0, (j0 + 1) % c} THEN 1 ELSE 0]]

\* results of np.random.randint(0, 2, (r, c)) taken for a larger grid
SampleGrids(r, c) ==
    {Block(r, c, i0, j0) : i0 \in Rng(r), j0 \in Rng(c)}
      \cup (IF r = 5 /\ c = 5 THEN {BlinkerH} ELSE {})

\* np.random.randint(0, 2, (r, c)): every grid of 0/1 cells up to MaxCells
\* cells, the sample grids above that
RandomGrids(r, c) ==
    IF r * c <= MaxCells THEN Arrays(r, c, {0, 1}) ELSE SampleGrids(r, c)

\* an unknown state falls back to the random grid
InitialGridsM(r, c, state) ==
    IF state = "heart"
    THEN {place_pattern(np_zeros(r, c), r, c, heart_pattern, r \div 2, c \div 2)}
    ELSE RandomGrids(r, c)
\* the grids Game.__init__ can leave in self.grid
InitialGrids(r, c, state) ==
    IF state = "heart"
    THEN {place_pattern(np_zeros(r, c), r, c, heart_pattern, r \div 2, c \div 2)}
    ELSE IF state = "random"
    THEN RandomGrids(r, c)
    ELSE {np_zeros(r, c)}

-----------------------------------------------------------------------------
(* src/src/gol.py: Game.update *)

\* a kernel whose centre weight counts the cell itself
kernelM == << <<1, 1, 1>>, <<1, 1, 1>>, <<1, 1, 1>> >>
kernel == << <<1, 1, 1>>, <<1, 0, 1>>, <<1, 1, 1>> >>

\* boundary="fill": a cell outside the array reads as 0
boundaryM(g, r, c, k, l) ==
    IF k \in Rng(r) /\ l \in Rng(c) THEN g[k][l] ELSE 0

\* an index outside the array is moved to the nearest edge
wrapM(k, n) == IF k < 0 THEN 0 ELSE IF k >= n THEN n - 1 ELSE k
\* boundary="wrap": an index one step outside the array is moved by the
\* array's length
wrap(k, n) == IF k < 0 THEN n + k ELSE IF k >= n THEN k - n ELSE k
boundary(g, r, c, k, l) == g[wrap(k, r)][wrap(l, c)]

\* the array positions convolve2d(mode="same") reads for output cell (i, j),
\* one per kernel entry (a, b), before boundary handling: <<a, b, row, column>>
kernel_reads(i, j) ==
    [k \in 1..9 |->
        LET a == (k - 1) \div 3
            b == (k - 1) % 3
        IN  <<a, b, i + 1 - a, j + 1 - b>>]

\* one product of the convolution sum
conv_term(g, r, c, e) ==
    kernel[e[1] + 1][e[2] + 1] * boundary(g, r, c, e[3], e[4])

\* the convolution sum of output cell (i, j)
conv_at(g, r, c, i, j) ==
    LET v == kernel_reads(i, j)
    IN  conv_term(g, r, c, v[1]) + conv_term(g, r, c, v[2])
          + conv_term(g, r, c, v[3]) + conv_term(g, r, c, v[4])
          + conv_term(g, r, c, v[5]) + conv_term(g, r, c, v[6])
          + conv_term(g, r, c, v[7]) + conv_term(g, r, c, v[8])
          + conv_term(g, r, c, v[9])

\* scipy.signal.convolve2d(self.grid, kernel, mode="same", boundary="wrap")
convolve2d(g, r, c) ==
    [i \in Rng(r) |-> [j \in Rng(c) |-> conv_at(g, r, c, i, j)]]

\* the mask without the test that the cell is alive
survival_maskM(g, total_neighbors, rules, i, j) ==
    isin(total_neighbors[i][j], rules)
survival_mask(g, total_neighbors, rules, i, j) ==
    g[i][j] = 1 /\ isin(total_neighbors[i][j], rules)

birth_mask(g, total_neighbors, rules, i, j) ==
    g[i][j] = 0 /\ isin(total_neighbors[i][j], rules)

\* an array one row short of g
zeros_likeM(g) ==
    [i \in {k \in DOMAIN g : k + 1 \in DOMAIN g} |-> [j \in DOMAIN g[i] |-> 0]]
\* np.zeros_like(self.grid)
zeros_like(g) == [i \in DOMAIN g |-> [j \in DOMAIN g[i] |-> 0]]

\* the born cells take the neighbour count in place of 1
update_golM(g, r, c, survival, birth) ==
    LET total_neighbors == convolve2d(g, r, c)
    IN  [i \in Rng(r) |-> [j \in Rng(c) |->
            IF birth_mask(g, total_neighbors, birth, i, j)
            THEN total_neighbors[i][j]
            ELSE IF survival_mask(g, total_neighbors, survival, i, j)
            THEN 1 ELSE 0]]

update_gol(g, r, c, survival, birth) ==
    LET total_neighbors == convolve2d(g, r, c)
        zeros == zeros_like(g)
        survived == [i \in DOMAIN zeros |-> [j \in DOMAIN zeros[i] |->
                        IF survival_mask(g, total_neighbors, survival, i, j)
                        THEN 1 ELSE zeros[i][j]]]
    IN  [i \in DOMAIN zeros |-> [j \in DOMAIN zeros[i] |->
            IF birth_mask(g, total_neighbors, birth, i, j)
            THEN 1 ELSE survived[i][j]]]

-----------------------------------------------------------------------------
(* The double-loop kernels: growing-heart.py, heart_v1.py, gol_v0.py *)

\* the eight reads without the modulo
vizinhosM(i, j, nl, nc) ==
    << <<i - 1, j - 1>>, <<i - 1, j>>, <<i - 1, j + 1>>,
       <<i, j - 1>>, <<i, j + 1>>,
       <<i + 1, j - 1>>, <<i + 1, j>>, <<i + 1, j + 1>> >>
\* the eight reads of total_vizinhos, in the order of the source
vizinhos(i, j, nl, nc) ==
    << <<(i - 1) % nl, (j - 1) % nc>>,
       <<(i - 1) % nl, j % nc>>,
       <<(i - 1) % nl, (j + 1) % nc>>,
       <<i % nl, (j - 1) % nc>>,
       <<i % nl, (j + 1) % nc>>,
       <<(i + 1) % nl, (j - 1) % nc>>,
       <<(i + 1) % nl, j % nc>>,
       <<(i + 1) % nl, (j + 1) % nc>> >>

\* NumPy accepts index k on an axis of length n when -n <= k < n
index_ok(k, n) == k >= 0 - n /\ k < n

\* the exception the reads of the double loop raise on an nl x nc grid
update_error(nl, nc) ==
    IF \E i \in Rng(nl), j \in Rng(nc) :
           \E k \in 1..8 :
               LET v == vizinhos(i, j, nl, nc)[k]
               IN  ~(index_ok(v[1], nl) /\ index_ok(v[2], nc))
    THEN "IndexError" ELSE "none"

\* the four orthogonal reads only
total_vizinhosM(g, i, j, nl, nc) ==
    LET v == vizinhos(i, j, nl, nc)
    IN  g[v[2][1]][v[2][2]] + g[v[4][1]][v[4][2]] + g[v[5][1]][v[5][2]]
          + g[v[7][1]][v[7][2]]
total_vizinhos(g, i, j, nl, nc) ==
    LET v == vizinhos(i, j, nl, nc)
    IN  g[v[1][1]][v[1][2]] + g[v[2][1]][v[2][2]] + g[v[3][1]][v[3][2]]
          + g[v[4][1]][v[4][2]] + g[v[5][1]][v[5][2]]
          + g[v[6][1]][v[6][2]] + g[v[7][1]][v[7][2]] + g[v[8][1]][v[8][2]]

\* growing-heart.py: Game.update; new_grid starts as a copy of self.grid
update_growing_heart(g, nl, nc) ==
    [i \in Rng(nl) |-> [j \in Rng(nc) |->
        LET tv == total_vizinhos(g, i, j, nl, nc)
        IN  IF g[i][j] = 1 /\ (tv < 2 \/ tv > 5) THEN 0
            ELSE IF g[i][j] = 0 /\ tv = 3 THEN 1
            ELSE g[i][j]]]

\* the third branch taken for an alive cell as well
update_heart_v0M(g, nl, nc) ==
    [i \in Rng(nl) |-> [j \in Rng(nc) |->
        LET tv == total_vizinhos(g, i, j, nl, nc)
        IN  IF g[i][j] = 1 /\ tv < 2 THEN 0
            ELSE IF g[i][j] = 1 /\ tv > 3 THEN 0
            ELSE IF tv = 3 THEN 1
            ELSE 0]]
\* heart_v0.py: Game.update, three branches
update_heart_v0(g, nl, nc) ==
    [i \in Rng(nl) |-> [j \in Rng(nc) |->
        LET tv == total_vizinhos(g, i, j, nl, nc)
        IN  IF g[i][j] = 1 /\ tv < 2 THEN 0
            ELSE IF g[i][j] = 1 /\ tv > 3 THEN 0
            ELSE IF g[i][j] = 0 /\ tv = 3 THEN 1
            ELSE g[i][j]]]

\* heart_v4.py: Game.update
update_heart_v4(g, nl, nc) ==
    [i \in Rng(nl) |-> [j \in Rng(nc) |->
        LET tv == total_vizinhos(g, i, j, nl, nc)
        IN  IF g[i][j] = 1 /\ (tv < 2 \/ tv > 4) THEN 0
            ELSE IF g[i][j] = 0 /\ tv = 3 THEN 1
            ELSE g[i][j]]]

\* a dead cell is born with up to 3 alive neighbours
update_classicM(g, nl, nc) ==
    [i \in Rng(nl) |-> [j \in Rng(nc) |->
        LET tv == total_vizinhos(g, i, j, nl, nc)
        IN  IF g[i][j] = 1 /\ (tv < 2 \/ tv > 3) THEN 0
            ELSE IF g[i][j] = 0 /\ tv <= 3 THEN 1
            ELSE g[i][j]]]
\* heart_v1.py, heart_v2.py, gol_v0.py: Game.update
update_classic(g, nl, nc) ==
    [i \in Rng(nl) |-> [j \in Rng(nc) |->
        LET tv == total_vizinhos(g, i, j, nl, nc)
        IN  IF g[i][j] = 1 /\ (tv < 2 \/ tv > 3) THEN 0
            ELSE IF g[i][j] = 0 /\ tv = 3 THEN 1
            ELSE g[i][j]]]

\* survival with 2 or 3 alive neighbours
update_growingheartM(g, r, c) ==
    LET total_neighbors == convolve2d(g, r, c)
        zeros == np_zeros(r, c)
        survived == [i \in Rng(r) |-> [j \in Rng(c) |->
                        IF /\ g[i][j] = 1
                           /\ total_neighbors[i][j] >= 2
                           /\ total_neighbors[i][j] <= 3
                        THEN 1 ELSE zeros[i][j]]]
    IN  [i \in Rng(r) |-> [j \in Rng(c) |->
            IF g[i][j] = 0 /\ total_neighbors[i][j] = 3
            THEN 1 ELSE survived[i][j]]]
\* growingheart.py: Game.update
update_growingheart(g, r, c) ==
    LET total_neighbors == convolve2d(g, r, c)
        zeros == np_zeros(r, c)
        survived == [i \in Rng(r) |-> [j \in Rng(c) |->
                        IF /\ g[i][j] = 1
                           /\ total_neighbors[i][j] >= 2
                           /\ total_neighbors[i][j] <= 5
                        THEN 1 ELSE zeros[i][j]]]
    IN  [i \in Rng(r) |-> [j \in Rng(c) |->
            IF g[i][j] = 0 /\ total_neighbors[i][j] = 3
            THEN 1 ELSE survived[i][j]]]

-----------------------------------------------------------------------------
(* src/src/past_versions/gol_v0.py: Game.__init__ *)

\* p taken as given
bad_probabilitiesM(p) == FALSE
\* np.random.choice rejects p when an entry is negative
bad_probabilities(p) == \E k \in DOMAIN p : p[k] < 0

\* np.random.choice(a, p=p) for a uniform draw u (hundredths): the index is
\* the number of entries of the cumulative sum of p (percent) that are <= u
choice(a, p, u) ==
    LET cdf1 == p[1]
        cdf2 == p[1] + p[2]
        idx == (IF cdf1 <= u THEN 1 ELSE 0) + (IF cdf2 <= u THEN 1 ELSE 0)
    IN  a[idx + 1]

-----------------------------------------------------------------------------
(* src/examples/saw_santos2023.py *)

\* Game.__init__: one cell from one value of random()
seed_cell(r, v) == IF r > v THEN FALSE ELSE TRUE

\* row and column swapped
into_to_coordM(p, nc) == <<p % nc, p \div nc>>
\* Game.__into_to_coord
into_to_coord(p, nc) == <<p \div nc, p % nc>>

\* the cell itself counted among its neighbours
alive_nbsM(cells, p, nl, nc) ==
    LET par_ordenado == into_to_coord(p, nc)
        viz == {<<linha, coluna>> \in
                   ((par_ordenado[1] - 1)..(par_ordenado[1] + 1))
                   \X ((par_ordenado[2] - 1)..(par_ordenado[2] + 1)) :
                   ~(linha < 0 \/ linha >= nl \/ coluna >= nc \/ coluna < 0)}
    IN  Cardinality({v \in viz : cells[v[1] * nc + v[2]]})
\* Game.__alive_nbs, counting in the list cells
alive_nbs(cells, p, nl, nc) ==
    LET par_ordenado == into_to_coord(p, nc)
        viz == {<<linha, coluna>> \in
                   ((par_ordenado[1] - 1)..(par_ordenado[1] + 1))
                   \X ((par_ordenado[2] - 1)..(par_ordenado[2] + 1)) :
                   /\ ~(linha < 0 \/ linha >= nl \/ coluna >= nc \/ coluna < 0)
                   /\ <<linha, coluna>> # par_ordenado}
    IN  Cardinality({v \in viz : cells[v[1] * nc + v[2]]})

\* the list self.celulas is bound to
Deref(ref, old, new) == IF ref = "new_grid" THEN new ELSE old

\* self.celulas = new_grid, the last statement of the loop body of update()
rebind(ref) == "new_grid"

-----------------------------------------------------------------------------
(* heart_v1.py (heart_v0.py) and heart_v4.py (heart_v2.py): Game.__init__ *)

\* the guard of heart_v1.py
heart_guard(nl, nc, pattern_height, pattern_width) ==
    nl > pattern_height /\ nc > pattern_width

\* grid[start_row : start_row + h, start_col : start_col + w] = pattern, for
\* a slice inside the array
stamp(g, pattern, start_row, start_col) ==
    [i \in DOMAIN g |-> [j \in DOMAIN g[i] |->
        IF /\ i \in start_row..(start_row + Len(pattern) - 1)
           /\ j \in start_col..(start_col + Len(pattern[1]) - 1)
        THEN pattern[i - start_row + 1][j - start_col + 1]
        ELSE g[i][j]]]

\* heart_v1.py: the grid Game.__init__ leaves
heart_v1_grid(nl, nc) ==
    LET pattern_height == Len(heart_pattern)
        pattern_width == Len(heart_pattern[1])
        start_row == (nl - pattern_height) \div 2
        start_col == (nc - pattern_width) \div 2
    IN  IF heart_guard(nl, nc, pattern_height, pattern_width)
        THEN stamp(np_zeros(nl, nc), heart_pattern, start_row, start_col)
        ELSE np_zeros(nl, nc)

\* heart_v4.py: the centres of the four quadrants
quadrant_centers == << <<12, 12>>, <<12, 37>>, <<37, 12>>, <<37, 37>> >>

\* heart_v4.py: the grid Game.__init__ leaves, one place_pattern per centre
heart_v4_grid(nl, nc) ==
    LET qc == quadrant_centers
        g0 == np_zeros(nl, nc)
        g1 == place_pattern(g0, nl, nc, heart_pattern, qc[1][1], qc[1][2])
        g2 == place_pattern(g1, nl, nc, heart_pattern, qc[2][1], qc[2][2])
        g3 == place_pattern(g2, nl, nc, heart_pattern, qc[3][1], qc[3][2])
    IN  place_pattern(g3, nl, nc, heart_pattern, qc[4][1], qc[4][2])

\* the grid sizes given to heart_v4.py: around the sizes at which a window
\* starts to fit, and the 50 of the script
QuadrantDims == {0, 14, 15, 16, 39, 40, 41, 50}

-----------------------------------------------------------------------------
(* The runs *)

Cells(nl, nc) == nl * nc

\* the rules the __main__ block of gol.py passes to Game
current_survival_rules == <<2, 3, 4, 5>>
current_birth_rules == <<3>>

\* new_grid bound to the array self.grid is bound to
new_arrayM(heap, ref) == ref
\* np.zeros_like(self.grid), self.grid.copy(): a new array object
new_array(heap, ref) == Len(heap) + 1

\* the writes to new_grid, in the array object it is bound to
store(heap, id, contents) ==
    IF id \in DOMAIN heap THEN [heap EXCEPT ![id] = contents]
    ELSE Append(heap, contents)

\* the contents of the array object with this id
Deref_array(heap, id) == heap[id]

-----------------------------------------------------------------------------
(* gol.py, growingheart.py: the prompts of __main__ *)

Digit ==
    ("0" :> 0) @@ ("1" :> 1) @@ ("2" :> 2) @@ ("3" :> 3) @@ ("4" :> 4) @@
    ("5" :> 5) @@ ("6" :> 6) @@ ("7" :> 7) @@ ("8" :> 8) @@ ("9" :> 9)

RECURSIVE strip(_)
\* str.strip(): int() ignores the whitespace around the number
strip(s) ==
    IF s = <<>> THEN s
    ELSE IF Head(s) = " " THEN strip(Tail(s))
    ELSE IF s[Len(s)] = " " THEN strip(SubSeq(s, 1, Len(s) - 1))
    ELSE s

RECURSIVE decimal(_)
\* the number a sequence of digits writes
decimal(s) ==
    IF s = <<>> THEN 0
    ELSE 10 * decimal(SubSeq(s, 1, Len(s) - 1)) + Digit[s[Len(s)]]

ValueError == [ok |-> FALSE, value |-> 0]

\* int(s): an optional sign and at least one digit, or ValueError
int(s) ==
    LET t == strip(s)
        signed == t # <<>> /\ t[1] \in {"+", "-"}
        body == IF signed THEN Tail(t) ELSE t
    IN  IF body = <<>> \/ \E k \in DOMAIN body : body[k] \notin DOMAIN Digit
        THEN ValueError
        ELSE [ok |-> TRUE,
              value |-> IF signed /\ t[1] = "-" THEN 0 - decimal(body)
                        ELSE decimal(body)]

\* a valid grid size is kept when the step count is not a number
read_inputsM(lines) ==
    LET size == int(lines[1])
        steps == int(lines[2])
    IN  IF ~size.ok THEN <<40, 41>>
        ELSE IF ~steps.ok THEN <<size.value, 41>>
        ELSE <<size.value, steps.value>>
\* the try block of __main__: <<matrix_size, total_steps>> after it
read_inputs(lines) ==
    LET size == int(lines[1])
        steps == int(lines[2])
    IN  IF ~size.ok THEN <<40, 41>>
        ELSE IF ~steps.ok THEN <<40, 41>>
        ELSE <<size.value, steps.value>>

-----------------------------------------------------------------------------
(* gol.py, growingheart.py, gol_v0.py: the version loop of __main__ *)

RECURSIVE digits(_)
\* the decimal digits of n >= 0
digits(n) == IF n < 10 THEN <<n>> ELSE Append(digits(n \div 10), n % 10)

\* f"{version:03d}": the digits, with zeros in front up to three
format_03d(n) ==
    LET d == digits(n)
    IN  IF Len(d) >= 3 THEN d ELSE [k \in 1..(3 - Len(d)) |-> 0] \o d

\* the digits between "<script>_v" and ".gif" in gif_filename
gif_filename(n) == format_03d(n)

\* no file is ever found
existsM(dir, name) == FALSE
\* os.path.exists(full_path) in the directory dir
exists(dir, name) == name \in dir

\* gif files next to versions 1..k: a later version, version 0, and names
\* whose number is not written with three digits
Strays(k) == {gif_filename(k + 2), <<0, 0, 0>>, <<1>>, <<0, 2>>}

\* the directories: versions 1..k of the script in a row, and other files
Directories ==
    UNION { { {gif_filename(v) : v \in 1..k} \cup T : T \in SUBSET Strays(k) } :
            k \in 0..MaxVersion }

\* the update first, the frame after it
loop_bodyM == <<"update", "render">>
\* the statements of the loop body of create_gif and create_visualization
loop_body == <<"render", "update">>

Init ==
    /\ prog \in {"gol", "gol_main", "saw_santos", "gol_v0", "heart_v1",
                "heart_v4", "gol_input", "gol_version"}
    /\ pc = "new"
    /\ gen = 0
    /\ grid = None /\ loopGrid = None /\ convGrid = None
    /\ start = None /\ classicGrid = None /\ v4Grid = None /\ v0Grid = None
    /\ survival_rules = None /\ birth_rules = None
    /\ celulas = None /\ new_grid = None
    /\ self_celulas = "celulas" /\ pos = 0
    /\ step_num = 0 /\ stmt = 1 /\ frames = <<>>
    /\ arrays = <<>> /\ grid_ref = 0
    /\ matrix_size = 0 /\ version = 0
    /\ IF prog = "gol_input"
       THEN typed \in InputArgs \X InputArgs
       ELSE typed = <<>>
    /\ IF prog = "gol_version"
       THEN existing \in Directories
       ELSE existing = {}
    /\ IF prog \in {"gol", "gol_main"}
       THEN /\ rows \in DimArgs
            /\ columns \in DimArgs
            /\ initial_state \in InitialStateArgs
            /\ initial_state = "random"
               => \/ Cells(rows, columns) <= MaxCells
                  \/ rows \in SampleDims /\ columns \in SampleDims
            /\ linhas = 0 /\ colunas = 0 /\ vivos = 0
            /\ IF prog = "gol"
               THEN /\ arg_survival \in SurvivalArgs
                    /\ arg_birth \in BirthArgs
                    /\ main_choice = "" /\ total_steps = 0
               ELSE /\ columns = rows
                    /\ arg_survival = Given(current_survival_rules)
                    /\ arg_birth = Given(current_birth_rules)
                    /\ main_choice \in ChoiceArgs
                    /\ total_steps \in StepsArgs
       ELSE /\ rows = 0 /\ columns = 0
            /\ arg_survival = Omitted /\ arg_birth = Omitted
            /\ initial_state = ""
            /\ main_choice = "" /\ total_steps = 0
            /\ IF prog \in {"saw_santos", "gol_v0"}
               THEN /\ linhas \in (IF prog = "gol_v0" THEN 1 ELSE 0)..MaxCells
                    /\ colunas \in (IF prog = "gol_v0" THEN 1 ELSE 0)..MaxCells
                    /\ Cells(linhas, colunas) <= MaxCells
                    /\ vivos \in VivosArgs
               ELSE IF prog = "heart_v1"
               THEN /\ linhas \in 0..MaxDim
                    /\ colunas \in 0..MaxDim
                    /\ vivos = 0
               ELSE IF prog = "heart_v4"
               THEN /\ linhas \in QuadrantDims
                    /\ colunas \in QuadrantDims
                    /\ vivos = 0
               ELSE /\ linhas = 0 /\ colunas = 0 /\ vivos = 0

\* gol.py: Game(rows, columns, survival_rules, birth_rules, initial_state);
\* the engines of the other scripts are given the same grid
GolNew ==
    /\ prog \in {"gol", "gol_main"} /\ pc = "new"
    /\ LET survival == StoreRules(arg_survival, DefaultSurvival)
           birth == StoreRules(arg_birth, DefaultBirth)
           err == init_error(rows, columns, survival, birth)
       IN  IF err # "none"
           THEN /\ pc' = err
                /\ UNCHANGED <<survival_rules, birth_rules, grid, loopGrid,
                               convGrid, start, kernelVars, heapVars>>
           ELSE /\ pc' = "ready"
                /\ survival_rules' = survival
                /\ birth_rules' = birth
                /\ \E g \in InitialGrids(rows, columns, initial_state) :
                       /\ grid' = g
                       /\ start' = g
                       /\ loopGrid' = g
                       /\ convGrid' = g
                       /\ classicGrid' = g
                       /\ v4Grid' = g
                       /\ v0Grid' = g
                       /\ IF prog = "gol_main"
                          THEN arrays' = <<g>> /\ grid_ref' = 1
                          ELSE UNCHANGED heapVars
    /\ UNCHANGED <<prog, rows, columns, arg_survival, arg_birth, initial_state,
                   linhas, colunas, vivos, celulas, new_grid, self_celulas,
                   pos, gen, driverVars, ioVars>>

\* the kernels of the other scripts take no rule arguments: they are stepped
\* in the runs that leave the rule arguments of gol.py out
Lockstep == ~arg_survival.given /\ ~arg_birth.given

\* the classic kernels are stepped in the runs that give gol.py the classic
\* rules as well
ClassicLockstep ==
    Lockstep \/ (arg_survival = Given(<<2, 3>>) /\ ~arg_birth.given)

\* one update() of each engine; an array without cells is not updated
GolUpdate ==
    /\ prog = "gol" /\ pc = "ready"
    /\ gen < MaxSteps
    /\ rows >= 1 /\ columns >= 1
    /\ LET err == update_error(rows, columns)
       IN  IF err # "none"
           THEN /\ pc' = err
                /\ UNCHANGED <<grid, loopGrid, convGrid, kernelVars, gen>>
           ELSE /\ pc' = pc
                /\ grid' = update_gol(grid, rows, columns, survival_rules,
                                      birth_rules)
                /\ IF Lockstep
                   THEN /\ loopGrid' = update_growing_heart(loopGrid, rows,
                                                            columns)
                        /\ convGrid' = update_growingheart(convGrid, rows,
                                                           columns)
                        /\ v4Grid' = update_heart_v4(v4Grid, rows, columns)
                   ELSE UNCHANGED <<loopGrid, convGrid, v4Grid>>
                /\ IF ClassicLockstep
                   THEN /\ classicGrid' = update_classic(classicGrid, rows,
                                                         columns)
                        /\ v0Grid' = update_heart_v0(v0Grid, rows, columns)
                   ELSE UNCHANGED <<classicGrid, v0Grid>>
                /\ gen' = gen + 1
    /\ UNCHANGED <<prog, rows, columns, arg_survival, arg_birth,
                   survival_rules, birth_rules, initial_state, linhas, colunas,
                   vivos, celulas, new_grid, self_celulas, pos, start,
                   driverVars, heapVars, ioVars>>

\* gol.py __main__: create_gif for 'gif', create_visualization for 'live',
\* a message for any other choice; range(steps) is empty for steps <= 0
MainChoice ==
    /\ prog = "gol_main" /\ pc = "ready"
    /\ pc' = IF main_choice \in {"gif", "live"} /\ total_steps > 0
             THEN "loop" ELSE "done"
    /\ step_num' = 0
    /\ stmt' = 1
    /\ UNCHANGED <<prog, rows, columns, arg_survival, arg_birth,
                   survival_rules, birth_rules, initial_state, grid, loopGrid,
                   convGrid, linhas, colunas, vivos, celulas, new_grid,
                   self_celulas, pos, gen, start, kernelVars, main_choice,
                   total_steps, frames, heapVars, ioVars>>

\* the control flow after a statement of the loop body: the next statement,
\* the next value of range(steps), or the end of the loop
LoopAdvance ==
    LET last == stmt = Len(loop_body)
    IN  /\ stmt' = IF last THEN 1 ELSE stmt + 1
        /\ step_num' = IF last /\ step_num + 1 < total_steps
                       THEN step_num + 1 ELSE step_num
        /\ pc' = IF last /\ ~(step_num + 1 < total_steps)
                 THEN "done" ELSE "loop"

\* create_gif: render_frame(game_instance.grid, step_num) and append_data;
\* create_visualization: imshow(game_instance.grid) and set_title
RenderFrame ==
    /\ prog = "gol_main" /\ pc = "loop"
    /\ loop_body[stmt] = "render"
    /\ frames' = Append(frames, [grid |-> Deref_array(arrays, grid_ref),
                                 step_num |-> step_num,
                                 ref |-> grid_ref])
    /\ LoopAdvance
    /\ UNCHANGED <<prog, rows, columns, arg_survival, arg_birth,
                   survival_rules, birth_rules, initial_state, grid, loopGrid,
                   convGrid, linhas, colunas, vivos, celulas, new_grid,
                   self_celulas, pos, gen, start, kernelVars, main_choice,
                   total_steps, heapVars, ioVars>>

\* the update skipped at an odd step index
LoopUpdateM ==
    /\ prog = "gol_main" /\ pc = "loop"
    /\ loop_body[stmt] = "update"
    /\ LET new_grid_ref == new_array(arrays, grid_ref)
           result == IF step_num % 2 = 1 THEN grid
                     ELSE update_gol(grid, rows, columns, survival_rules,
                                     birth_rules)
       IN  /\ arrays' = store(arrays, new_grid_ref, result)
           /\ grid_ref' = new_grid_ref
           /\ grid' = result
    /\ gen' = gen + 1
    /\ LoopAdvance
    /\ UNCHANGED <<prog, rows, columns, arg_survival, arg_birth,
                   survival_rules, birth_rules, initial_state, loopGrid,
                   convGrid, linhas, colunas, vivos, celulas, new_grid,
                   self_celulas, pos, start, kernelVars, main_choice, total_steps,
                   frames, ioVars>>
\* game_instance.update() in the loop body
LoopUpdate ==
    /\ prog = "gol_main" /\ pc = "loop"
    /\ loop_body[stmt] = "update"
    /\ LET new_grid_ref == new_array(arrays, grid_ref)
           result == update_gol(Deref_array(arrays, grid_ref), rows, columns,
                                survival_rules, birth_rules)
       IN  /\ arrays' = store(arrays, new_grid_ref, result)
           /\ grid_ref' = new_grid_ref
           /\ grid' = result
    /\ gen' = gen + 1
    /\ LoopAdvance
    /\ UNCHANGED <<prog, rows, columns, arg_survival, arg_birth,
                   survival_rules, birth_rules, initial_state, loopGrid,
                   convGrid, linhas, colunas, vivos, celulas, new_grid,
                   self_celulas, pos, start, kernelVars, main_choice, total_steps,
                   frames, ioVars>>

\* gol_v0.py: Game(linhas, colunas, vivos_percent)
V0New ==
    /\ prog = "gol_v0" /\ pc = "new"
    /\ LET p == <<vivos, 100 - vivos>>
       IN  IF bad_probabilities(p)
           THEN pc' = "ValueError" /\ grid' = grid
           ELSE /\ pc' = "ready"
                /\ \E u \in Arrays(linhas, colunas, RandomVals) :
                       grid' = [i \in Rng(linhas) |-> [j \in Rng(colunas) |->
                                   choice(<<1, 0>>, p, u[i][j])]]
    /\ UNCHANGED <<prog, rows, columns, arg_survival, arg_birth,
                   survival_rules, birth_rules, initial_state, loopGrid,
                   convGrid, linhas, colunas, vivos, celulas, new_grid,
                   self_celulas, pos, gen, start, kernelVars, driverVars,
                   heapVars, ioVars>>

V0Update ==
    /\ prog = "gol_v0" /\ pc = "ready"
    /\ gen < MaxSteps
    /\ grid' = update_classic(grid, linhas, colunas)
    /\ gen' = gen + 1
    /\ UNCHANGED <<prog, pc, rows, columns, arg_survival, arg_birth,
                   survival_rules, birth_rules, initial_state, loopGrid,
                   convGrid, linhas, colunas, vivos, celulas, new_grid,
                   self_celulas, pos, start, kernelVars, driverVars,
                   heapVars, ioVars>>

\* heart_v1.py: Game(linhas, colunas)
H1New ==
    /\ prog = "heart_v1" /\ pc = "new"
    /\ grid' = heart_v1_grid(linhas, colunas)
    /\ pc' = "ready"
    /\ UNCHANGED <<prog, rows, columns, arg_survival, arg_birth,
                   survival_rules, birth_rules, initial_state, loopGrid,
                   convGrid, linhas, colunas, vivos, celulas, new_grid,
                   self_celulas, pos, gen, start, kernelVars, driverVars,
                   heapVars, ioVars>>

H1Update ==
    /\ prog = "heart_v1" /\ pc = "ready"
    /\ gen < MaxSteps
    /\ linhas >= 1 /\ colunas >= 1
    /\ grid' = update_classic(grid, linhas, colunas)
    /\ gen' = gen + 1
    /\ UNCHANGED <<prog, pc, rows, columns, arg_survival, arg_birth,
                   survival_rules, birth_rules, initial_state, loopGrid,
                   convGrid, linhas, colunas, vivos, celulas, new_grid,
                   self_celulas, pos, start, kernelVars, driverVars,
                   heapVars, ioVars>>

\* heart_v4.py: Game(linhas, colunas)
V4New ==
    /\ prog = "heart_v4" /\ pc = "new"
    /\ grid' = heart_v4_grid(linhas, colunas)
    /\ pc' = "ready"
    /\ UNCHANGED <<prog, rows, columns, arg_survival, arg_birth,
                   survival_rules, birth_rules, initial_state, loopGrid,
                   convGrid, linhas, colunas, vivos, celulas, new_grid,
                   self_celulas, pos, gen, start, kernelVars, driverVars,
                   heapVars, ioVars>>

V4Update ==
    /\ prog = "heart_v4" /\ pc = "ready"
    /\ gen < MaxSteps
    /\ linhas >= 1 /\ colunas >= 1
    /\ grid' = update_heart_v4(grid, linhas, colunas)
    /\ gen' = gen + 1
    /\ UNCHANGED <<prog, pc, rows, columns, arg_survival, arg_birth,
                   survival_rules, birth_rules, initial_state, loopGrid,
                   convGrid, linhas, colunas, vivos, celulas, new_grid,
                   self_celulas, pos, start, kernelVars, driverVars,
                   heapVars, ioVars>>

\* saw_santos2023.py: Game(linhas, colunas, vivos); the second loop of
\* __init__ draws random() again and assigns a local only
SawNew ==
    /\ prog = "saw_santos" /\ pc = "new"
    /\ \E draws \in [Rng(Cells(linhas, colunas)) -> RandomVals] :
           celulas' = [p \in Rng(Cells(linhas, colunas)) |->
                          seed_cell(draws[p], vivos)]
    /\ self_celulas' = "celulas"
    /\ pc' = "ready"
    /\ UNCHANGED <<prog, rows, columns, arg_survival, arg_birth,
                   survival_rules, birth_rules, initial_state, grid, loopGrid,
                   convGrid, linhas, colunas, vivos, new_grid, pos, gen,
                   start, kernelVars, driverVars, heapVars, ioVars>>

\* update(): new_grid = [x for x in self.celulas], and the loop starts over
\* the list self.celulas is bound to now
SawUpdateBegin ==
    /\ prog = "saw_santos" /\ pc = "ready"
    /\ gen < MaxSteps
    /\ LET cur == Deref(self_celulas, celulas, new_grid)
       IN  /\ celulas' = cur
           /\ new_grid' = cur
    /\ self_celulas' = "celulas"
    /\ pos' = 0
    /\ IF Cells(linhas, colunas) = 0
       THEN pc' = "ready" /\ gen' = gen + 1
       ELSE pc' = "updating" /\ gen' = gen
    /\ UNCHANGED <<prog, rows, columns, arg_survival, arg_birth,
                   survival_rules, birth_rules, initial_state, grid, loopGrid,
                   convGrid, linhas, colunas, vivos, start, kernelVars,
                   driverVars, heapVars, ioVars>>

\* one iteration of the loop of update(), its last statement
\* self.celulas = new_grid included
SawUpdateIter ==
    /\ prog = "saw_santos" /\ pc = "updating"
    /\ LET val == celulas[pos]
           alive_n == alive_nbs(Deref(self_celulas, celulas, new_grid), pos,
                                linhas, colunas)
       IN  new_grid' =
               IF val
               THEN IF alive_n < 2 \/ alive_n > 3
                    THEN [new_grid EXCEPT ![pos] = FALSE] ELSE new_grid
               ELSE IF alive_n = 3
                    THEN [new_grid EXCEPT ![pos] = TRUE] ELSE new_grid
    /\ self_celulas' = rebind(self_celulas)
    /\ pos' = pos + 1
    /\ IF pos + 1 = Cells(linhas, colunas)
       THEN pc' = "ready" /\ gen' = gen + 1
       ELSE pc' = "updating" /\ gen' = gen
    /\ UNCHANGED <<prog, rows, columns, arg_survival, arg_birth,
                   survival_rules, birth_rules, initial_state, grid, loopGrid,
                   convGrid, linhas, colunas, vivos, celulas, start,
                   kernelVars, driverVars, heapVars, ioVars>>

\* gol.py, growingheart.py __main__: the two prompts and their try block
ReadInputs ==
    /\ prog = "gol_input" /\ pc = "new"
    /\ pc' = "ready"
    /\ matrix_size' = read_inputs(typed)[1]
    /\ total_steps' = read_inputs(typed)[2]
    /\ UNCHANGED <<prog, rows, columns, arg_survival, arg_birth,
                   survival_rules, birth_rules, initial_state, grid, loopGrid,
                   convGrid, linhas, colunas, vivos, celulas, new_grid,
                   self_celulas, pos, gen, start, kernelVars, main_choice,
                   step_num, stmt, frames, heapVars, typed, existing, version>>

\* gol.py, growingheart.py, gol_v0.py __main__: version = 1
VersionStart ==
    /\ prog = "gol_version" /\ pc = "new"
    /\ pc' = "while"
    /\ version' = 1
    /\ UNCHANGED <<prog, rows, columns, arg_survival, arg_birth,
                   survival_rules, birth_rules, initial_state, grid, loopGrid,
                   convGrid, linhas, colunas, vivos, celulas, new_grid,
                   self_celulas, pos, gen, start, kernelVars, driverVars,
                   heapVars, typed, matrix_size, existing>>

\* one pass of the loop: break when no file has the name, else version += 1
VersionLoop ==
    /\ prog = "gol_version" /\ pc = "while"
    /\ IF ~exists(existing, gif_filename(version))
       THEN pc' = "break" /\ version' = version
       ELSE pc' = pc /\ version' = version + 1
    /\ UNCHANGED <<prog, rows, columns, arg_survival, arg_birth,
                   survival_rules, birth_rules, initial_state, grid, loopGrid,
                   convGrid, linhas, colunas, vivos, celulas, new_grid,
                   self_celulas, pos, gen, start, kernelVars, driverVars,
                   heapVars, typed, matrix_size, existing>>

Next ==
    \/ ReadInputs
    \/ VersionStart
    \/ VersionLoop
    \/ GolNew
    \/ GolUpdate
    \/ MainChoice
    \/ RenderFrame
    \/ LoopUpdate
    \/ V0New
    \/ V0Update
    \/ H1New
    \/ H1Update
    \/ V4New
    \/ V4Update
    \/ SawNew
    \/ SawUpdateBegin
    \/ SawUpdateIter

Spec == Init /\ [][Next]_vars

\* the version loop alone; the interpreter keeps running the loop
VersionInit == Init /\ prog = "gol_version"
VersionNext == VersionStart \/ VersionLoop
VersionSpec == VersionInit /\ [][VersionNext]_vars /\ WF_vars(VersionNext)

-----------------------------------------------------------------------------
(* Vocabulary of the properties *)

Elems(list) == {list[k] : k \in DOMAIN list}

Offsets == {d \in (0 - 1..1) \X (0 - 1..1) : d # <<0, 0>>}

\* the toroidal neighbour positions of (i, j) on an r x c grid
TorusPositions(i, j, r, c) ==
    {<<(i + d[1]) % r, (j + d[2]) % c>> : d \in Offsets}

\* alive cells among them, one per offset
TorusCount(g, i, j, r, c) ==
    Cardinality({d \in Offsets : g[(i + d[1]) % r][(j + d[2]) % c] = 1})

GolReady == prog = "gol" /\ pc = "ready"

-----------------------------------------------------------------------------
\* C1: one Game.update of gol.py, with rule values in 0..8, makes a cell alive
\* exactly when it was alive with a neighbour count in survival_rules or dead
\* with a neighbour count in birth_rules, the counts taken on the grid before
\* the call.
C1_UpdateAppliesRules ==
    [][(/\ prog = "gol"
        /\ gen' = gen + 1
        /\ Elems(survival_rules) \subseteq 0..8
        /\ Elems(birth_rules) \subseteq 0..8)
       => \A i \in Rng(rows), j \in Rng(columns) :
              LET n == TorusCount(grid, i, j, rows, columns)
                  alive == \/ grid[i][j] = 1 /\ n \in Elems(survival_rules)
                           \/ grid[i][j] = 0 /\ n \in Elems(birth_rules)
              IN  grid'[i][j] = IF alive THEN 1 ELSE 0]_vars

C1_Witness ==
    /\ GolReady /\ gen >= 1
    /\ survival_rules = <<0, 8>> /\ birth_rules = <<0, 6>>
    /\ \E i \in Rng(rows), j \in Rng(columns) : grid[i][j] = 1
    /\ \E i \in Rng(rows), j \in Rng(columns) : grid[i][j] = 0

-----------------------------------------------------------------------------
\* C2: in saw_santos2023.py a completed Game.update leaves in self.celulas the
\* next generation of the list it was called on: every cell's next state is
\* computed from the neighbour counts of that list.
C2_UpdateFromSnapshot ==
    (prog = "saw_santos" /\ pc = "ready" /\ gen >= 1)
    => \A p \in Rng(Cells(linhas, colunas)) :
           LET n == alive_nbs(celulas, p, linhas, colunas)
           IN  Deref(self_celulas, celulas, new_grid)[p]
                 = IF celulas[p] THEN ~(n < 2 \/ n > 3) ELSE n = 3

\* C2, second half: self.celulas is not rebound while the loop is running.
C2_NoWriteBeforeDone ==
    (prog = "saw_santos" /\ pc = "updating") => self_celulas = "celulas"

-----------------------------------------------------------------------------
\* C3: in the modulo double loop of heart_v1.py and the wrap convolution of
\* gol.py the neighbour count of (i, j) is the number of alive cells at
\* ((i+di) mod r, (j+dj) mod c) over the eight offsets (di, dj) # (0, 0); on
\* a grid with r, c >= 2 the neighbours of (0, 0) are the eight listed cells.
C3_ToroidalNeighbours ==
    (GolReady /\ rows >= 1 /\ columns >= 1)
    => /\ LET total_neighbors == convolve2d(grid, rows, columns)
          IN  \A i \in Rng(rows), j \in Rng(columns) :
                  total_neighbors[i][j] = TorusCount(grid, i, j, rows, columns)
       /\ \A i \in Rng(rows), j \in Rng(columns) :
              total_vizinhos(grid, i, j, rows, columns)
                = TorusCount(grid, i, j, rows, columns)
       \* the positions read depend on the shape alone: once per Game
       /\ gen = 0 => \A i \in Rng(rows), j \in Rng(columns) :
              /\ {<<wrap(e[3], rows), wrap(e[4], columns)>> :
                     e \in {x \in Elems(kernel_reads(i, j)) :
                               kernel[x[1] + 1][x[2] + 1] = 1}}
                   = TorusPositions(i, j, rows, columns)
              /\ Elems(vizinhos(i, j, rows, columns))
                   = TorusPositions(i, j, rows, columns)
       /\ (rows >= 2 /\ columns >= 2)
          => LET r == rows
                 c == columns
                 listed == {<<r - 1, c - 1>>, <<r - 1, 0>>, <<r - 1, 1>>,
                            <<0, c - 1>>, <<0, 1>>,
                            <<1, c - 1>>, <<1, 0>>, <<1, 1>>}
             IN  /\ Elems(vizinhos(0, 0, r, c)) = listed
                 /\ {<<wrap(e[3], r), wrap(e[4], c)>> :
                        e \in {x \in Elems(kernel_reads(0, 0)) :
                                  kernel[x[1] + 1][x[2] + 1] = 1}} = listed

\* a 3 x 3 grid whose only alive cell is the far corner, which (0, 0) counts
C3_Witness ==
    /\ GolReady /\ rows = 3 /\ columns = 3
    /\ grid[2][2] = 1
    /\ \A i \in Rng(rows), j \in Rng(columns) :
           <<i, j>> # <<2, 2>> => grid[i][j] = 0
    /\ convolve2d(grid, rows, columns)[0][0] = 1

-----------------------------------------------------------------------------
-----------------------------------------------------------------------------
\* C5: every cell of the grid of a constructed gol.py Game is 0 or 1, after
\* construction and after any number of update calls.
C5_CellsBinary ==
    GolReady => \A i \in Rng(rows), j \in Rng(columns) : grid[i][j] \in {0, 1}

C5_Witness ==
    /\ GolReady /\ gen >= 1 /\ initial_state = "random"
    /\ \E i \in Rng(rows), j \in Rng(columns) : grid[i][j] = 1
    /\ \E i \in Rng(rows), j \in Rng(columns) : grid[i][j] = 0

-----------------------------------------------------------------------------
\* C6 as stated: constructing a gol.py Game with rows <= 0 or columns <= 0
\* fails, and no Game object results.
C6_NonPositiveDimensionFails ==
    (prog = "gol" /\ pc # "new" /\ (rows <= 0 \/ columns <= 0))
    => pc # "ready"

\* C6: constructing a gol.py Game with rows < 0 or columns < 0 fails with the
\* ValueError of the array allocation and no Game object results; with rows
\* or columns 0 and neither negative it succeeds, with a grid of no cells.
C6_OnlyNegativeDimensionFails ==
    (prog = "gol" /\ pc # "new")
    => /\ (rows < 0 \/ columns < 0)
          => /\ pc = "ValueError"
             /\ grid = None /\ survival_rules = None /\ birth_rules = None
       /\ (rows >= 0 /\ columns >= 0 /\ (rows = 0 \/ columns = 0))
          => /\ pc = "ready"
             /\ DOMAIN grid = Rng(rows)
             /\ \A i \in Rng(rows) : DOMAIN grid[i] = {}

C6_Witness ==
    /\ GolReady /\ rows = 0 /\ columns >= 1
    /\ DOMAIN grid = {}

-----------------------------------------------------------------------------
RuleOutOfRange(arg) == arg.given /\ ~(Elems(arg.value) \subseteq 0..8)

\* C7 as stated: constructing a gol.py Game with a rule list holding a value
\* outside 0..8 fails; such a list is never stored in a usable engine.
C7_InvalidRuleFails ==
    (/\ prog = "gol" /\ pc # "new"
     /\ (RuleOutOfRange(arg_survival) \/ RuleOutOfRange(arg_birth)))
    => pc # "ready"

\* C7: a rule list holding a value outside 0..8 does not make the
\* construction of a gol.py Game fail: with rows, columns >= 0 the engine is
\* constructed and both lists are stored as given.
C7_RuleStoredUnchecked ==
    (/\ prog = "gol" /\ pc # "new"
     /\ rows >= 0 /\ columns >= 0
     /\ (RuleOutOfRange(arg_survival) \/ RuleOutOfRange(arg_birth)))
    => /\ pc = "ready"
       /\ arg_survival.given => survival_rules = arg_survival.value
       /\ arg_birth.given => birth_rules = arg_birth.value

C7_Witness ==
    /\ GolReady /\ rows = 5 /\ columns = 5
    /\ arg_survival = Given(<<9>>) /\ survival_rules = <<9>>
    /\ gen >= 1

-----------------------------------------------------------------------------
\* C8 as stated: in gol_v0.py and saw_santos2023.py constructing a Game with
\* a percent-alive below 0 or above 100 fails, and no grid is produced.
C8_InvalidProbabilityFails ==
    (/\ prog \in {"gol_v0", "saw_santos"} /\ pc # "new"
     /\ (vivos < 0 \/ vivos > 100))
    => pc \notin {"ready", "updating"}

\* C8: with a percent-alive below 0 or above 100, the constructor of
\* gol_v0.py fails with the ValueError of np.random.choice and produces no
\* grid; the constructor of saw_santos2023.py does not fail: it produces an
\* all-dead grid below 0 and an all-alive grid above 100.
C8_OnlyGolV0Fails ==
    /\ (prog = "gol_v0" /\ pc # "new" /\ (vivos < 0 \/ vivos > 100))
       => pc = "ValueError" /\ grid = None
    /\ (prog = "saw_santos" /\ pc = "ready" /\ gen = 0)
       => /\ DOMAIN celulas = Rng(Cells(linhas, colunas))
          /\ vivos < 0 => \A p \in DOMAIN celulas : celulas[p] = FALSE
          /\ vivos > 100 => \A p \in DOMAIN celulas : celulas[p] = TRUE

C8_Witness ==
    /\ prog = "saw_santos" /\ pc = "ready" /\ gen = 0
    /\ vivos = 150 /\ Cells(linhas, colunas) >= 4
    /\ \A p \in DOMAIN celulas : celulas[p]

-----------------------------------------------------------------------------
\* C9: in gol.py, initial_state = 'heart' leaves the grid all-dead and raises
\* nothing when rows < 6 or columns < 7, and when rows >= 6 and columns >= 7
\* the grid is the 6 x 7 heart with its top-left corner at
\* (rows // 2 - 3, columns // 2 - 3), every other cell dead.
C9_HeartPlacement ==
    (/\ prog = "gol" /\ pc # "new" /\ initial_state = "heart"
     /\ rows >= 0 /\ columns >= 0 /\ gen = 0)
    => /\ pc = "ready"
       /\ DOMAIN grid = Rng(rows)
       /\ \A i \in Rng(rows) :
              /\ DOMAIN grid[i] = Rng(columns)
              /\ \A j \in Rng(columns) :
                     LET a == i - ((rows \div 2) - 3)
                         b == j - ((columns \div 2) - 3)
                     IN  grid[i][j] =
                             IF /\ rows >= 6 /\ columns >= 7
                                /\ a \in 0..5 /\ b \in 0..6
                             THEN heart_pattern[a + 1][b + 1]
                             ELSE 0

\* the smallest grid in which the heart fits, with the heart on it
C9_Witness ==
    /\ GolReady /\ initial_state = "heart" /\ gen = 0
    /\ rows = 6 /\ columns = 7
    /\ grid[0][1] = 1 /\ grid[5][3] = 1 /\ grid[0][0] = 0

-----------------------------------------------------------------------------
\* C10 as stated: a Game constructed without explicit rules uses the classic
\* rules, survival {2, 3} and birth {3}.
C10_ClassicDefault ==
    (GolReady /\ ~arg_survival.given /\ ~arg_birth.given)
    => Elems(survival_rules) = {2, 3} /\ Elems(birth_rules) = {3}

\* C10: a gol.py Game constructed without explicit rules uses
\* survival_rules = [2, 3, 4, 5] and birth_rules = [3].
C10_GrowthDefault ==
    GolReady
    => /\ ~arg_survival.given => survival_rules = <<2, 3, 4, 5>>
       /\ ~arg_birth.given => birth_rules = <<3>>

C10_Witness ==
    /\ GolReady /\ ~arg_survival.given /\ ~arg_birth.given
    /\ Elems(survival_rules) = {2, 3, 4, 5} /\ Elems(birth_rules) = {3}

-----------------------------------------------------------------------------
\* gol.py configured with the classic rules
ClassicRules == Elems(survival_rules) = {2, 3} /\ Elems(birth_rules) = {3}

AllDead(g) == \A i \in DOMAIN g : \A j \in DOMAIN g[i] : g[i][j] = 0

\* C11: from the horizontal blinker on the 5 x 5 torus, the classic double
\* loop and gol.py under the classic rules hold the horizontal blinker after
\* an even number of updates and the vertical blinker (1,2),(2,2),(3,2) after
\* an odd number.
C11_BlinkerOscillates ==
    (GolReady /\ start = BlinkerH)
    => LET expected == IF gen % 2 = 0 THEN BlinkerH ELSE BlinkerV
       IN  /\ Lockstep => classicGrid = expected
           /\ ClassicRules => grid = expected

C11_Witness ==
    /\ GolReady /\ rows = 5 /\ columns = 5
    /\ start = BlinkerH /\ ClassicRules
    /\ gen >= 2 /\ grid = BlinkerH

-----------------------------------------------------------------------------
\* the only alive cells of g form a 2 x 2 block
IsBlock(g, r, c) == \E i0 \in Rng(r), j0 \in Rng(c) : g = Block(r, c, i0, j0)

\* C12: on a grid of at least 4 x 4 whose only alive cells form a 2 x 2
\* block, the classic double loop and gol.py under the classic rules hold the
\* same grid after every number of updates.
C12_BlockIsFixedPoint ==
    (GolReady /\ rows >= 4 /\ columns >= 4 /\ IsBlock(start, rows, columns))
    => /\ Lockstep => classicGrid = start
       /\ ClassicRules => grid = start

C12_Witness ==
    /\ GolReady /\ rows = 4 /\ columns = 4
    /\ start = Block(4, 4, 1, 1) /\ ClassicRules
    /\ gen >= 2 /\ grid = start
    /\ grid[1][1] = 1 /\ grid[1][2] = 1 /\ grid[2][1] = 1 /\ grid[2][2] = 1

-----------------------------------------------------------------------------
\* C13: from an all-dead grid of any size, the classic double loop and gol.py
\* under the classic rules hold an all-dead grid after every number of
\* updates.
C13_AllDeadStaysDead ==
    (GolReady /\ AllDead(start))
    => /\ Lockstep => AllDead(classicGrid)
       /\ ClassicRules => AllDead(grid)

C13_Witness ==
    /\ GolReady /\ Lockstep /\ rows = 3 /\ columns = 8
    /\ AllDead(start) /\ gen >= 2 /\ AllDead(classicGrid)

-----------------------------------------------------------------------------
\* C14: after one update with survival [2, 3, 4, 5] and birth [3] (the
\* defaults of gol.py, the rule of growingheart.py) a cell that was alive with
\* 0 alive neighbours is dead and one that was alive with exactly 4 is alive;
\* in gol.py with survival [2, 3] the cell with 4 alive neighbours is dead.
C14_GrowthSurvival ==
    (GolReady /\ gen = 1 /\ (Lockstep \/ survival_rules = <<2, 3>>))
    => \A i \in Rng(rows), j \in Rng(columns) :
           start[i][j] = 1
           => LET n == TorusCount(start, i, j, rows, columns)
              IN  /\ (Lockstep /\ n = 0)
                     => grid[i][j] = 0 /\ convGrid[i][j] = 0
                  /\ (Lockstep /\ n = 4)
                     => grid[i][j] = 1 /\ convGrid[i][j] = 1
                  /\ (survival_rules = <<2, 3>> /\ n = 4) => grid[i][j] = 0

C14_Witness ==
    /\ GolReady /\ gen = 1 /\ Lockstep
    /\ \E i \in Rng(rows), j \in Rng(columns) :
           /\ start[i][j] = 1
           /\ TorusCount(start, i, j, rows, columns) = 4
           /\ grid[i][j] = 1 /\ convGrid[i][j] = 1
    /\ \E i \in Rng(rows), j \in Rng(columns) :
           /\ start[i][j] = 1
           /\ TorusCount(start, i, j, rows, columns) \in {0, 1, 6, 7, 8}
           /\ grid[i][j] = 0 /\ convGrid[i][j] = 0

-----------------------------------------------------------------------------
\* C15: for a gol.py Game constructed with rows >= 1, columns >= 1 and rule
\* values in 0..8, and for the double loop of growing-heart.py on its grid, no
\* update raises, whatever number of updates came before.
C15_UpdateNeverRaises ==
    (/\ prog \in {"gol", "gol_main"} /\ pc # "new"
     /\ rows >= 1 /\ columns >= 1
     /\ ~RuleOutOfRange(arg_survival) /\ ~RuleOutOfRange(arg_birth))
    => pc \in {"ready", "loop", "done"}

C15_Witness ==
    /\ GolReady /\ Lockstep /\ gen >= 2
    /\ rows = 1 /\ columns >= 2
    /\ \E j \in Rng(columns) : start[0][j] = 1

-----------------------------------------------------------------------------
\* the next generation of g under the rule lists, from the toroidal count
RuleStep(g, r, c, survival, birth) ==
    [i \in Rng(r) |-> [j \in Rng(c) |->
        LET n == TorusCount(g, i, j, r, c)
        IN  IF \/ g[i][j] = 1 /\ n \in Elems(survival)
               \/ g[i][j] = 0 /\ n \in Elems(birth)
            THEN 1 ELSE 0]]

\* C16: the grid a gol.py Game holds after an update is a function of the
\* grid it held before and of its rule lists alone: two engines with equal
\* grids and equal rules hold equal grids after the same number of updates,
\* whatever the step index of the driver loop, the number of updates done
\* before and the random values drawn at construction.
C16_UpdateIsFunctionOfGrid ==
    [][(prog \in {"gol", "gol_main"} /\ gen' = gen + 1)
       => grid' = RuleStep(grid, rows, columns, survival_rules,
                           birth_rules)]_vars

\* a finished driver loop whose updates at step index 0 and 1 both changed
\* the grid
C16_Witness ==
    /\ prog = "gol_main" /\ pc = "done" /\ initial_state = "random"
    /\ gen >= 2 /\ Len(frames) >= 2
    /\ frames[1].step_num = 0 /\ frames[2].step_num = 1
    /\ frames[2].grid # frames[1].grid
    /\ grid # frames[2].grid

-----------------------------------------------------------------------------
\* C17: an update of a gol.py Game leaves rows, columns, survival_rules and
\* birth_rules as they were, and the grid it stores has rows rows of columns
\* cells.
C17_UpdateKeepsShapeAndRules ==
    [][(prog \in {"gol", "gol_main"} /\ gen' = gen + 1)
       => /\ rows' = rows /\ columns' = columns
          /\ survival_rules' = survival_rules
          /\ birth_rules' = birth_rules
          /\ DOMAIN grid' = Rng(rows)
          /\ \A i \in Rng(rows) : DOMAIN grid'[i] = Rng(columns)]_vars

C17_Witness ==
    /\ GolReady /\ gen >= 2
    /\ rows = 2 /\ columns = 3
    /\ survival_rules = <<0, 8>>
    /\ DOMAIN grid = Rng(2) /\ \A i \in Rng(2) : DOMAIN grid[i] = Rng(3)
    /\ grid # start

-----------------------------------------------------------------------------
\* the grid after n updates of the constructed grid
RECURSIVE GridAfter(_)
GridAfter(n) ==
    IF n = 0 THEN start
    ELSE RuleStep(GridAfter(n - 1), rows, columns, survival_rules,
                  birth_rules)

\* the iterations of the loop of create_gif / create_visualization
Iterations ==
    IF main_choice \in {"gif", "live"} /\ total_steps > 0
    THEN total_steps ELSE 0

\* C18: in create_gif and create_visualization the k-th frame (k from 0)
\* carries step index k and shows the grid after exactly k updates, so frame
\* 0 shows the constructed grid; a frame is produced before the update of its
\* iteration, and a finished run of `steps` iterations has produced `steps`
\* frames and done `steps` updates.
C18_FrameShowsGeneration ==
    prog = "gol_main"
    => /\ \A k \in 1..Len(frames) :
              /\ frames[k].step_num = k - 1
              /\ frames[k].grid = GridAfter(k - 1)
       /\ gen <= Len(frames) /\ Len(frames) <= gen + 1
       /\ pc = "done" => Len(frames) = Iterations /\ gen = Iterations

C18_Witness ==
    /\ prog = "gol_main" /\ pc = "done" /\ main_choice = "live"
    /\ total_steps = 2 /\ Len(frames) = 2 /\ gen = 2
    /\ frames[1].grid = start /\ frames[2].grid # start
    /\ grid # frames[2].grid

-----------------------------------------------------------------------------
\* C19: one update of heart_v4.py keeps an alive cell alive when it has 2, 3,
\* 4 or 5 alive neighbours and kills it with fewer than 2 or more than 5, as
\* the docstring and the comments of the method say; a dead cell is born with
\* exactly 3 and stays dead otherwise.
C19_SurvivesWithTwoToFive ==
    (GolReady /\ Lockstep /\ gen = 1)
    => \A i \in Rng(rows), j \in Rng(columns) :
           LET n == TorusCount(start, i, j, rows, columns)
           IN  v4Grid[i][j] =
                   IF start[i][j] = 1
                   THEN IF n \in 2..5 THEN 1 ELSE 0
                   ELSE IF n = 3 THEN 1 ELSE 0

-----------------------------------------------------------------------------
\* what the state of cell (i, j) adds to its own neighbour count: in the
\* convolution of gol.py, in the double loop of growing-heart.py
SelfInConvolution(g, r, c, i, j) ==
    conv_at([g EXCEPT ![i][j] = 1], r, c, i, j)
      - conv_at([g EXCEPT ![i][j] = 0], r, c, i, j)
SelfInLoop(g, r, c, i, j) ==
    total_vizinhos([g EXCEPT ![i][j] = 1], i, j, r, c)
      - total_vizinhos([g EXCEPT ![i][j] = 0], i, j, r, c)

\* C20 as stated: on every grid with rows >= 1 and columns >= 1, a dimension
\* of 1 or 2 included, the state of cell (i, j) adds nothing to the neighbour
\* count of (i, j) in the NumPy kernels.
C20_SelfNeverCounted ==
    (GolReady /\ gen = 0 /\ rows >= 1 /\ columns >= 1)
    => \A i \in Rng(rows), j \in Rng(columns) :
           /\ SelfInConvolution(grid, rows, columns, i, j) = 0
           /\ SelfInLoop(grid, rows, columns, i, j) = 0

\* C20: on every grid with rows >= 2 and columns >= 2, a dimension of 2
\* included, the state of cell (i, j) adds nothing to the neighbour count of
\* (i, j) in the NumPy kernels; on a grid with rows = 1 or columns = 1 the
\* wrapped offsets along that dimension land on the cell, and its state is
\* counted twice, on the 1 x 1 grid eight times.
C20_SelfCountedOnDimensionOne ==
    (GolReady /\ gen = 0 /\ rows >= 1 /\ columns >= 1)
    => LET self == IF rows >= 2 /\ columns >= 2 THEN 0
                   ELSE IF rows = 1 /\ columns = 1 THEN 8
                   ELSE 2
       IN  \A i \in Rng(rows), j \in Rng(columns) :
               /\ SelfInConvolution(grid, rows, columns, i, j) = self
               /\ SelfInLoop(grid, rows, columns, i, j) = self

\* a 1 x 3 grid whose only alive cell counts itself twice
C20_Witness ==
    /\ GolReady /\ gen = 0 /\ rows = 1 /\ columns = 3
    /\ grid[0][0] = 1 /\ grid[0][1] = 0 /\ grid[0][2] = 0
    /\ conv_at(grid, rows, columns, 0, 0) = 2
    /\ total_vizinhos(grid, 0, 0, rows, columns) = 2

-----------------------------------------------------------------------------
\* saw_santos2023.py: the alive cells of the list among the eight positions
\* around cell p, taken modulo the grid (torus) or inside the grid only
SawTorusCount(cells, p, nl, nc) ==
    LET x == p \div nc
        y == p % nc
    IN  Cardinality({d \in Offsets :
                        cells[((x + d[1]) % nl) * nc + ((y + d[2]) % nc)]})

SawPlanePositions(p, nl, nc) ==
    LET x == p \div nc
        y == p % nc
    IN  {d \in Offsets : (x + d[1]) \in Rng(nl) /\ (y + d[2]) \in Rng(nc)}

SawPlaneCount(cells, p, nl, nc) ==
    LET x == p \div nc
        y == p % nc
    IN  Cardinality({d \in SawPlanePositions(p, nl, nc) :
                        cells[(x + d[1]) * nc + (y + d[2])]})

SawSeeded == prog = "saw_santos" /\ pc = "ready" /\ gen = 0

\* C21 as stated: in saw_santos2023.py adjacency wraps at the boundary:
\* __alive_nbs counts, for every cell, the alive cells at the eight positions
\* taken modulo linhas and colunas.
C21_SawWraps ==
    (SawSeeded /\ linhas >= 3 /\ colunas >= 3)
    => \A p \in Rng(Cells(linhas, colunas)) :
           alive_nbs(celulas, p, linhas, colunas)
             = SawTorusCount(celulas, p, linhas, colunas)

\* C21: in saw_santos2023.py adjacency does not wrap: __alive_nbs counts the
\* alive cells among the positions around the cell that lie inside the grid,
\* so on a grid with linhas, colunas >= 2 a corner cell has 3 neighbour
\* positions, another border cell 5 and an inner cell 8.
C21_SawBoundedPlane ==
    SawSeeded
    => \A p \in Rng(Cells(linhas, colunas)) :
           /\ alive_nbs(celulas, p, linhas, colunas)
                = SawPlaneCount(celulas, p, linhas, colunas)
           /\ (linhas >= 2 /\ colunas >= 2)
              => LET x == p \div colunas
                     y == p % colunas
                     onRowEdge == x \in {0, linhas - 1}
                     onColEdge == y \in {0, colunas - 1}
                 IN  Cardinality(SawPlanePositions(p, linhas, colunas))
                       = IF onRowEdge /\ onColEdge THEN 3
                         ELSE IF onRowEdge \/ onColEdge THEN 5
                         ELSE 8

\* a 3 x 3 grid of alive cells: the corner counts 3, the centre 8
C21_Witness ==
    /\ SawSeeded /\ linhas = 3 /\ colunas = 3
    /\ \A p \in Rng(9) : celulas[p]
    /\ alive_nbs(celulas, 0, linhas, colunas) = 3
    /\ alive_nbs(celulas, 4, linhas, colunas) = 8

-----------------------------------------------------------------------------
\* C22: an update of gol.py writes to a new array object and rebinds
\* Game.grid to it: the array object a renderer was handed before an update
\* holds the contents it had then after that update and all later ones, and
\* Game.grid is bound to the array of the newest generation.
C22_SnapshotKeepsContents ==
    (prog = "gol_main" /\ pc \in {"ready", "loop", "done"})
    => /\ \A k \in 1..Len(frames) :
              /\ frames[k].ref \in DOMAIN arrays
              /\ Deref_array(arrays, frames[k].ref) = frames[k].grid
       /\ Deref_array(arrays, 1) = start
       /\ Deref_array(arrays, grid_ref) = grid
       /\ Len(arrays) = gen + 1

\* two updates after the first frame, both changing the grid, and the array
\* of the first frame still holds the constructed grid
C22_Witness ==
    /\ prog = "gol_main" /\ pc = "done" /\ main_choice = "gif"
    /\ gen = 2 /\ Len(frames) = 2
    /\ frames[1].ref = 1 /\ frames[2].ref = 2 /\ grid_ref = 3
    /\ Deref_array(arrays, 1) = start
    /\ Deref_array(arrays, 2) # start
    /\ Deref_array(arrays, 3) # Deref_array(arrays, 2)

-----------------------------------------------------------------------------
\* C23: from the same grid of 0/1 cells, the three-branch update of
\* heart_v0.py, the two-branch update of heart_v1.py, heart_v2.py and
\* gol_v0.py, and the update of gol.py constructed with survival_rules
\* [2, 3] and birth_rules [3] hold the same grid after every number of
\* updates.
C23_ClassicKernelsAgree ==
    (GolReady /\ ClassicLockstep)
    => /\ v0Grid = classicGrid
       /\ ClassicRules => grid = classicGrid

C23_Witness ==
    /\ GolReady /\ ClassicLockstep /\ ClassicRules
    /\ initial_state = "random"
    /\ gen >= 2
    /\ grid = classicGrid /\ v0Grid = classicGrid
    /\ grid # start
    /\ \E i \in Rng(rows), j \in Rng(columns) : grid[i][j] = 1
    /\ \E i \in Rng(rows), j \in Rng(columns) : grid[i][j] = 0

-----------------------------------------------------------------------------
\* C24: in heart_v0.py and heart_v1.py the heart is stamped, centred, on
\* every grid with linhas >= 6 and colunas >= 7, the grid of exactly 6 x 7
\* included, and the grid is all-dead only when the heart does not fit.
C24_HeartStampedWheneverItFits ==
    (prog = "heart_v1" /\ pc = "ready" /\ gen = 0)
    => LET fits == linhas >= 6 /\ colunas >= 7
           start_row == (linhas - 6) \div 2
           start_col == (colunas - 7) \div 2
       IN  \A i \in Rng(linhas), j \in Rng(colunas) :
               grid[i][j] =
                   IF /\ fits
                      /\ i - start_row \in 0..5
                      /\ j - start_col \in 0..6
                   THEN heart_pattern[i - start_row + 1][j - start_col + 1]
                   ELSE 0

-----------------------------------------------------------------------------
\* the window of the 6 x 7 heart around a centre, and whether it lies in
\* the grid
Window(centre) ==
    ((centre[1] - 3)..(centre[1] + 2)) \X ((centre[2] - 3)..(centre[2] + 3))

WindowFits(centre, nl, nc) == Window(centre) \subseteq (Rng(nl) \X Rng(nc))

LiveCells(g) ==
    Cardinality({p \in UNION {{<<i, j>> : j \in DOMAIN g[i]} : i \in DOMAIN g} :
                    g[p[1]][p[2]] = 1})

\* C25: the constructor of heart_v4.py and heart_v2.py leaves a grid of
\* linhas x colunas cells in which the window of every centre that fits
\* holds the whole heart and every other cell is dead: no heart is clipped
\* or written outside the grid, and the alive cells number 27 per fitting
\* window, 108 on the 50 x 50 grid.
C25_PlacementAllOrNothing ==
    (prog = "heart_v4" /\ pc = "ready" /\ gen = 0)
    => LET fitting == {k \in DOMAIN quadrant_centers :
                          WindowFits(quadrant_centers[k], linhas, colunas)}
       IN  /\ DOMAIN grid = Rng(linhas)
           /\ \A i \in Rng(linhas) : DOMAIN grid[i] = Rng(colunas)
           /\ \A k \in fitting :
                  \A p \in Window(quadrant_centers[k]) :
                      grid[p[1]][p[2]] =
                          heart_pattern[p[1] - quadrant_centers[k][1] + 4]
                                       [p[2] - quadrant_centers[k][2] + 4]
           /\ \A i \in Rng(linhas), j \in Rng(colunas) :
                  (\A k \in fitting : <<i, j>> \notin Window(quadrant_centers[k]))
                  => grid[i][j] = 0
           /\ LiveCells(grid) = 27 * Cardinality(fitting)
           /\ (linhas = 50 /\ colunas = 50) => LiveCells(grid) = 108

\* a grid on which two of the four windows fit
C25_Witness ==
    /\ prog = "heart_v4" /\ pc = "ready" /\ gen = 0
    /\ linhas = 39 /\ colunas = 41
    /\ LiveCells(grid) = 54
    /\ grid[9][10] = 1 /\ grid[9][35] = 1 /\ grid[34][10] = 0

-----------------------------------------------------------------------------
\* the list of saw_santos2023.py that holds the cells of array g
AsList(g, nl, nc) == [p \in Rng(nl * nc) |-> g[p \div nc][p % nc] = 1]

\* C26: in the double loop of growing-heart.py, the convolution of gol.py and
\* __alive_nbs of saw_santos2023.py, on every grid of 0/1 cells of at least
\* 1 x 1, the neighbour count of every cell is an integer in 0..8, so a rule
\* value outside 0..8 matches no cell; on the 3 x 3 grid every value in 0..8
\* is the count of the centre cell for some grid.
C26_CountInRange ==
    /\ (GolReady /\ gen = 0 /\ rows >= 1 /\ columns >= 1)
       => /\ \A i \in Rng(rows), j \in Rng(columns) :
                 /\ conv_at(grid, rows, columns, i, j) \in 0..8
                 /\ total_vizinhos(grid, i, j, rows, columns) \in 0..8
                 /\ \A v \in Elems(survival_rules) \cup Elems(birth_rules) :
                        v \notin 0..8
                        => conv_at(grid, rows, columns, i, j) # v
          /\ (rows = 3 /\ columns = 3 /\ AllDead(grid))
             => \A v \in 0..8 :
                    \E g \in RandomGrids(3, 3) :
                        /\ conv_at(g, 3, 3, 1, 1) = v
                        /\ total_vizinhos(g, 1, 1, 3, 3) = v
                        /\ alive_nbs(AsList(g, 3, 3), 4, 3, 3) = v
    /\ SawSeeded
       => \A p \in Rng(Cells(linhas, colunas)) :
              alive_nbs(celulas, p, linhas, colunas) \in 0..8

\* the 3 x 3 grid of alive cells, where every count is 8, with a rule value
\* of 9 that no count matches
C26_Witness ==
    /\ GolReady /\ gen = 0 /\ rows = 3 /\ columns = 3
    /\ survival_rules = <<9>>
    /\ \A i \in Rng(3), j \in Rng(3) : grid[i][j] = 1
    /\ conv_at(grid, rows, columns, 1, 1) = 8
    /\ total_vizinhos(grid, 0, 0, rows, columns) = 8

-----------------------------------------------------------------------------
\* C27: the version loop of gol.py, growingheart.py and gol_v0.py ends on
\* every directory with finitely many versioned files, and it ends with the
\* smallest version >= 1 whose file <script>_v<NNN>.gif did not exist when it
\* was looked up: every smaller version had its file, and the name chosen is
\* not the name of an existing file.
C27_VersionChosen ==
    <>(/\ pc = "break"
       /\ version >= 1
       /\ gif_filename(version) \notin existing
       /\ \A v \in 1..(version - 1) : gif_filename(v) \in existing)

\* the loop has passed ten files in a row and chosen a name of two
\* significant digits, next to a later version and names of other widths
C27_Witness ==
    /\ prog = "gol_version" /\ pc = "break"
    /\ version >= 10
    /\ gif_filename(version) = <<0, version \div 10, version % 10>>
    /\ gif_filename(version + 1) \in existing
    /\ <<1>> \in existing /\ <<0, 0, 0>> \in existing

-----------------------------------------------------------------------------
\* C28: in __main__ of gol.py and growingheart.py, when either line typed is
\* not an integer the run uses grid size 40 and 41 steps, both, also when the
\* grid size typed was an integer; when both are integers they are used as
\* typed.
C28_DefaultsForBoth ==
    (prog = "gol_input" /\ pc = "ready")
    => IF int(typed[1]).ok /\ int(typed[2]).ok
       THEN /\ matrix_size = int(typed[1]).value
            /\ total_steps = int(typed[2]).value
       ELSE matrix_size = 40 /\ total_steps = 41

\* a grid size of 12 was typed, and a step count that is no integer
C28_Witness ==
    /\ prog = "gol_input" /\ pc = "ready"
    /\ typed[1] = <<"1", "2">>
    /\ typed[2] = <<"3", ".", "5">>
    /\ matrix_size = 40 /\ total_steps = 41

-----------------------------------------------------------------------------
\* the grid of gol_v0.py as Game.__init__ left it
V0Seeded == prog = "gol_v0" /\ pc = "ready" /\ gen = 0

\* C29: seeding is exact at the boundary percentages, for every value the
\* random source returns: with 0 percent alive every cell of the initial grid
\* is dead and with 100 percent every cell is alive, in saw_santos2023.py and
\* in gol_v0.py.
C29_BoundaryExact ==
    /\ SawSeeded
       => /\ vivos = 0 => \A p \in DOMAIN celulas : celulas[p] = FALSE
          /\ vivos = 100 => \A p \in DOMAIN celulas : celulas[p] = TRUE
    /\ V0Seeded
       => /\ vivos = 0 => AllDead(grid)
          /\ vivos = 100
             => \A i \in Rng(linhas), j \in Rng(colunas) : grid[i][j] = 1

-----------------------------------------------------------------------------
\* C30: constructing a gol.py Game (on dimensions the array allocation
\* accepts) with an initial_state other than 'heart' or 'random' raises
\* nothing: self.grid is the rows x columns grid of dead cells, and with the
\* default rules it is all dead after every later update.
C30_UnknownStateStartsEmpty ==
    (/\ prog = "gol" /\ pc # "new"
     /\ initial_state \notin {"heart", "random"}
     /\ rows >= 0 /\ columns >= 0)
    => /\ pc = "ready"
       /\ DOMAIN grid = Rng(rows)
       /\ \A i \in Rng(rows) : DOMAIN grid[i] = Rng(columns)
       /\ gen = 0 => AllDead(grid)
       /\ Lockstep => AllDead(grid)

\* two updates after the fallback on a 4 x 6 grid
C30_Witness ==
    /\ GolReady /\ initial_state = "other" /\ Lockstep
    /\ rows = 4 /\ columns = 6
    /\ gen >= 2 /\ AllDead(grid)

-----------------------------------------------------------------------------
=============================================================================
